---- MODULE Spec2Model ----
(***************************************************************************)
(* Model of misconfig-configversioncompatibilitychecker (src/main.py).     *)
(*                                                                         *)
(* A Python str is a sequence of one-character strings, so that            *)
(* str.split and int() are computed on the characters.  A Python value     *)
(* is a record [type, text]: its type name and its textual form.  An       *)
(* exception is a record [cls, reason, config_version, app_version]; a     *)
(* log record is [level, msg, arg].                                        *)
(***************************************************************************)
EXTENDS Integers, Sequences, FiniteSets, TLC

\* Largest digit used when version components are enumerated.
MaxDigit == 2

------------------------------------------------------------------------------
(* Strings, str.split and int()                                            *)

DigitChars == <<"0", "1", "2", "3", "4", "5", "6", "7", "8", "9">>

IsDigit(c) == \E i \in 1..10 : DigitChars[i] = c

DigitVal(c) == (CHOOSE i \in 1..10 : DigitChars[i] = c) - 1

RECURSIVE DigitsValue(_)
DigitsValue(ds) ==
    IF ds = <<>> THEN 0
    ELSE 10 * DigitsValue(SubSeq(ds, 1, Len(ds) - 1)) + DigitVal(ds[Len(ds)])

AllDigits(ds) == Len(ds) > 0 /\ \A i \in 1..Len(ds) : IsDigit(ds[i])

\* int(tok): an optional sign followed by one or more decimal digits; anything
\* else raises ValueError (ok = FALSE).  A leading "-" yields a negative int.
PyInt(tok) ==
    LET signed == Len(tok) > 0 /\ tok[1] \in {"-", "+"}
        body   == IF signed THEN Tail(tok) ELSE tok
    IN  IF AllDigits(body)
        THEN [ok  |-> TRUE,
              val |-> IF signed /\ tok[1] = "-" THEN 0 - DigitsValue(body)
                      ELSE DigitsValue(body)]
        ELSE [ok |-> FALSE, val |-> 0]

\* s.split(sep): the pieces between the separators, empty pieces kept.
RECURSIVE Split(_, _)
Split(s, sep) ==
    IF \A i \in 1..Len(s) : s[i] # sep THEN <<s>>
    ELSE LET k == CHOOSE i \in 1..Len(s) :
                      s[i] = sep /\ \A j \in 1..(i - 1) : s[j] # sep
         IN  <<SubSeq(s, 1, k - 1)>> \o Split(SubSeq(s, k + 1, Len(s)), sep)

RECURSIVE Join(_, _)
Join(parts, sep) ==
    IF Len(parts) = 0 THEN <<>>
    ELSE IF Len(parts) = 1 THEN parts[1]
    ELSE parts[1] \o <<sep>> \o Join(Tail(parts), sep)

------------------------------------------------------------------------------
(* Values, exceptions, log records                                         *)

StrValue(s) == [type |-> "str", text |-> s]

NoneValue == [type |-> "NoneType", text |-> <<"N", "o", "n", "e">>]

\* Truthy as an `is not None` test would be.
TruthyNotNone(v) == v.type # "NoneType"

\* bool(v), as `not config_version` evaluates it.
Truthy(v) ==
    CASE v.type = "str"      -> Len(v.text) > 0
      [] v.type = "int"      -> PyInt(v.text).val # 0
      [] v.type = "float"    -> v.text # <<"0", ".", "0">>
      [] v.type = "bool"     -> v.text = <<"T", "r", "u", "e">>
      [] v.type = "NoneType" -> FALSE
      [] v.type = "list"     -> v.text # <<"[", "]">>
      [] v.type = "dict"     -> v.text # <<"{", "}">>
      [] OTHER               -> TRUE

NoExc == [cls |-> "None", reason |-> "", config_version |-> <<>>, app_version |-> <<>>]

Exc(cls, reason) ==
    [cls |-> cls, reason |-> reason, config_version |-> <<>>, app_version |-> <<>>]

\* Python's class hierarchy for the exception classes the program meets.
BaseOf(cls) ==
    CASE cls = "JSONDecodeError"             -> "ValueError"
      [] cls = "UnicodeDecodeError"          -> "ValueError"
      [] cls = "FileNotFoundError"           -> "OSError"
      [] cls = "PermissionError"             -> "OSError"
      [] cls = "SystemExit"                  -> "BaseException"
      [] cls = "Exception"                   -> "BaseException"
      [] cls \in {"BaseException", "object"}  -> "object"
      [] OTHER                               -> "Exception"

\* isinstance(e, target): what an `except target:` clause matches.
IsInstance(cls, target) ==
    \/ cls = target
    \/ BaseOf(cls) = target
    \/ BaseOf(BaseOf(cls)) = target
    \/ BaseOf(BaseOf(BaseOf(cls))) = target

LogRecord(level, msg, arg) == [level |-> level, msg |-> msg, arg |-> arg]

------------------------------------------------------------------------------
(* is_version_compatible                                                   *)

BadVersion == [ok |-> FALSE, major |-> 0, minor |-> 0, patch |-> 0]

\* ParseVersion that takes a missing patch component as 0.
ParseVersionLenient(v) ==
    LET parts == Split(v, ".")
        padded == IF Len(parts) = 2 THEN Append(parts, <<"0">>) ELSE parts
    IN  IF Len(padded) # 3 THEN BadVersion
        ELSE IF \E i \in 1..3 : ~PyInt(padded[i]).ok THEN BadVersion
        ELSE [ok    |-> TRUE,
              major |-> PyInt(padded[1]).val,
              minor |-> PyInt(padded[2]).val,
              patch |-> PyInt(padded[3]).val]

\* a, b, c = map(int, v.split(".")): ValueError (ok = FALSE) when the split
\* does not yield exactly three pieces or int() rejects one of them.
ParseVersion(v) ==
    LET parts == Split(v, ".")
    IN  IF Len(parts) # 3 THEN BadVersion
        ELSE IF \E i \in 1..3 : ~PyInt(parts[i]).ok THEN BadVersion
        ELSE [ok    |-> TRUE,
              major |-> PyInt(parts[1]).val,
              minor |-> PyInt(parts[2]).val,
              patch |-> PyInt(parts[3]).val]

\* CompatRule with the patch compared as well when major and minor are equal.
CompatRulePatch(c, a) ==
    IF c.major > a.major THEN "Major version mismatch"
    ELSE IF c.major = a.major /\ c.minor > a.minor THEN "Minor version mismatch"
    ELSE IF c.major = a.major /\ c.minor = a.minor /\ c.patch > a.patch
    THEN "Minor version mismatch"
    ELSE "compatible"

\* CompatRule with the minors compared whatever the majors are.
CompatRuleMinorAlone(c, a) ==
    IF c.major > a.major THEN "Major version mismatch"
    ELSE IF c.minor > a.minor THEN "Minor version mismatch"
    ELSE "compatible"

\* The if/elif of the comparator on two parsed versions.
CompatRule(c, a) ==
    IF c.major > a.major THEN "Major version mismatch"
    ELSE IF c.major = a.major /\ c.minor > a.minor THEN "Minor version mismatch"
    ELSE "compatible"

IncompatError(reason, config_version, app_version) ==
    [cls |-> "VersionIncompatibilityError", reason |-> reason,
     config_version |-> config_version, app_version |-> app_version]

Outcome(returned, e, logs) == [returned |-> returned, exc |-> e, log |-> logs]

\* is_version_compatible(config_version, app_version): config_version is the
\* value main read from the document, app_version a command-line string.
is_version_compatible(config_version, app_version) ==
    IF config_version.type # "str"
    THEN \* config_version.split: no such attribute; neither except clause matches
         Outcome(FALSE, Exc("AttributeError", "split"), <<>>)
    ELSE LET c == ParseVersion(config_version.text)
             a == ParseVersion(app_version)
         IN  IF ~c.ok \/ ~a.ok
             THEN Outcome(FALSE, Exc("ValueError", "Invalid version format"),
                          <<LogRecord("error", "Invalid version format", "")>>)
             ELSE IF CompatRule(c, a) # "compatible"
             THEN Outcome(FALSE,
                          IncompatError(CompatRule(c, a), config_version.text, app_version),
                          <<LogRecord("warning", "not compatible", CompatRule(c, a))>>)
             ELSE Outcome(TRUE, NoExc,
                          <<LogRecord("info", "is compatible", "")>>)

------------------------------------------------------------------------------
(* Documents and files                                                     *)

Keys == {"version", "config_version"}

\* Marks a key the mapping does not hold.
Absent == [type |-> "absent", text |-> <<>>]

NoItems == [k \in Keys |-> Absent]

NoneDoc == [type |-> "NoneType", items |-> NoItems]

\* config_data.get(key) on a mapping: the value, or None when the key is absent.
DictGet(doc, key) ==
    IF doc.items[key] = Absent THEN NoneValue ELSE doc.items[key]

ParseOk(doc) == [err |-> "", doc |-> doc]

ParseFails(cls) == [err |-> cls, doc |-> NoneDoc]

\* json.load(f) and yaml.safe_load(f) on the opened file: the library's result
\* for the file's content, a document or the exception it raises.
json_load(file) == file.json

yaml_safe_load(file) == file.yaml

LoadResult(doc, e, logs, opened, read) ==
    [ret |-> doc, exc |-> e, log |-> logs, opened |-> opened, read |-> read]

\* The two outer except clauses of load_config, applied to an exception e
\* raised in the try body after `logs` were written.
LoadConfigExcept(e, logs, opened, read) ==
    IF IsInstance(e.cls, "FileNotFoundError")
    THEN LoadResult(NoneDoc, e,
                    Append(logs, LogRecord("error", "Configuration file not found", "")),
                    opened, read)
    ELSE IF IsInstance(e.cls, "ValueError")
    THEN LoadResult(NoneDoc, e, Append(logs, LogRecord("error", e.reason, "")),
                    opened, read)
    ELSE LoadResult(NoneDoc, e, logs, opened, read)

\* load_config(config_file, config_type); `file` is the state of config_file on
\* disk and `debug` tells whether the root logger lets debug records through.
load_config(file, config_type, debug) ==
    IF file.state = "missing"
    THEN LoadConfigExcept(Exc("FileNotFoundError", "No such file"), <<>>, FALSE, FALSE)
    ELSE IF file.state = "unreadable"
    THEN LoadConfigExcept(Exc("PermissionError", "Permission denied"), <<>>, FALSE, FALSE)
    ELSE IF config_type = "json"
    THEN IF json_load(file).err = ""
         THEN LoadResult(json_load(file).doc, NoExc,
                         IF debug THEN <<LogRecord("debug", "Successfully loaded", "")>>
                         ELSE <<>>, TRUE, TRUE)
         ELSE IF IsInstance(json_load(file).err, "JSONDecodeError")
         THEN LoadConfigExcept(Exc(json_load(file).err, "Expecting value"),
                               <<LogRecord("error", "Error decoding JSON file", "")>>,
                               TRUE, TRUE)
         ELSE LoadConfigExcept(Exc(json_load(file).err, "codec can't decode"),
                               <<>>, TRUE, TRUE)
    ELSE IF config_type = "yaml"
    THEN IF yaml_safe_load(file).err = ""
         THEN LoadResult(yaml_safe_load(file).doc, NoExc,
                         IF debug THEN <<LogRecord("debug", "Successfully loaded", "")>>
                         ELSE <<>>, TRUE, TRUE)
         ELSE IF IsInstance(yaml_safe_load(file).err, "YAMLError")
         THEN LoadConfigExcept(Exc(yaml_safe_load(file).err, "could not find expected"),
                               <<LogRecord("error", "Error decoding YAML file", "")>>,
                               TRUE, TRUE)
         ELSE LoadConfigExcept(Exc(yaml_safe_load(file).err, "codec can't decode"),
                               <<>>, TRUE, TRUE)
    ELSE LoadConfigExcept(Exc("ValueError", "Invalid configuration type"),
                          <<>>, TRUE, FALSE)

------------------------------------------------------------------------------
(* Inputs                                                                  *)

DigitTokens == {<<DigitChars[d + 1]>> : d \in 0..MaxDigit}

\* Components a version string is built from: digits, a negative number, a
\* non-number and the empty component.
Tokens == DigitTokens \cup {<<"-", "1">>, <<"x">>, <<>>}

ShortTokens == {<<"1">>, <<>>}

\* Version strings handed to the comparator: every three-component string over
\* Tokens, and strings of one, two and four components.
VersionStrings ==
    {Join(p, ".") : p \in [1..3 -> Tokens]}
        \cup UNION {{Join(p, ".") : p \in [1..n -> ShortTokens]} : n \in {1, 2, 4}}

\* Version strings found in documents and on the command line of whole runs.
ConfigVersions ==
    {Join(<<a, b, <<"0">>>>, ".") : a, b \in {<<"1">>, <<"2">>}} \cup {<<"1", ".", "2">>}

AppVersions == {<<"1", ".", "1", ".", "0">>, <<"1", ".", "2", ".", "7">>, <<"1", ".", "x">>}

\* Values a document holds under a key.
Values ==
    {StrValue(s) : s \in ConfigVersions \cup {<<>>}}
        \cup {NoneValue,
              [type |-> "int", text |-> <<"0">>], [type |-> "int", text |-> <<"1">>],
              [type |-> "float", text |-> <<"0", ".", "0">>],
              [type |-> "float", text |-> <<"1", ".", "2">>],
              [type |-> "bool", text |-> <<"F", "a", "l", "s", "e">>],
              [type |-> "bool", text |-> <<"T", "r", "u", "e">>],
              [type |-> "list", text |-> <<"[", "]">>],
              [type |-> "list", text |-> <<"[", "1", "]">>],
              [type |-> "dict", text |-> <<"{", "}">>]}

DictDocs ==
    {[type |-> "dict", items |-> it] :
        it \in {f \in [Keys -> Values \cup {Absent}] :
                   f["config_version"] \in {Absent, StrValue(<<"1", ".", "1", ".", "0">>),
                                            [type |-> "int", text |-> <<"0">>]}}}

\* Parsed documents whose top level is no mapping.
OtherDocs ==
    {NoneDoc, [type |-> "list", items |-> NoItems], [type |-> "str", items |-> NoItems],
     [type |-> "int", items |-> NoItems]}

Docs == DictDocs \cup OtherDocs

FileWith(j, y) == [state |-> "present", json |-> j, yaml |-> y]

\* States of the configuration file: absent, not openable, JSON text (which
\* YAML reads as the same document), YAML-only text, text neither parser
\* accepts, and bytes that do not decode.
Files ==
    {[state |-> st, json |-> ParseFails("OSError"), yaml |-> ParseFails("OSError")] :
        st \in {"missing", "unreadable"}}
        \cup {FileWith(ParseOk(d), ParseOk(d)) : d \in Docs}
        \cup {FileWith(ParseFails("JSONDecodeError"), ParseOk(d)) : d \in Docs}
        \cup {FileWith(ParseFails("JSONDecodeError"), ParseFails("YAMLError")),
              FileWith(ParseFails("UnicodeDecodeError"), ParseFails("UnicodeDecodeError"))}

\* Format tags: the two supported ones and two others.
ConfigTypes == {"json", "yaml", "toml", ""}

Args ==
    [app_version : AppVersions, version_key : Keys, config_type : ConfigTypes,
     verbose : BOOLEAN]

------------------------------------------------------------------------------
(* State                                                                   *)

VARIABLES
    args,            \* the command line (or the arguments of a direct call)
    file,            \* the state of the configuration file on disk
    pc,              \* position in main, or in the direct call
    config_data,     \* main's local
    config_version,  \* main's local (the first argument of a direct comparator call)
    exc,             \* the exception in flight, NoExc if none
    returned,        \* TRUE once is_version_compatible returned True
    log,             \* records the logging module wrote
    stdout,          \* lines printed
    exit_status,     \* -1 while the process runs
    file_opened,     \* open(config_file) succeeded
    file_read,       \* a parser read the file
    ivc_calls        \* number of calls of is_version_compatible

vars == <<args, file, pc, config_data, config_version, exc, returned, log, stdout,
          exit_status, file_opened, file_read, ivc_calls>>

InitLocals ==
    /\ config_data = NoneDoc
    /\ exc = NoExc
    /\ returned = FALSE
    /\ log = <<>>
    /\ stdout = <<>>
    /\ exit_status = -1
    /\ file_opened = FALSE
    /\ file_read = FALSE
    /\ ivc_calls = 0

\* A run of the tool from the command line.
Init ==
    /\ args \in Args
    /\ file \in Files
    /\ pc = "parse_args"
    /\ config_version = NoneValue
    /\ InitLocals

\* A direct call of load_config.
InitLoad ==
    /\ args \in {a \in Args : a.app_version = <<"1", ".", "1", ".", "0">>
                              /\ a.version_key = "version"}
    /\ file \in Files
    /\ pc = "call_load_config"
    /\ config_version = NoneValue
    /\ InitLocals

\* A direct call of is_version_compatible on two strings.
InitCheck ==
    /\ \E av \in VersionStrings :
          args = [app_version |-> av, version_key |-> "version",
                  config_type |-> "json", verbose |-> FALSE]
    /\ file = FileWith(ParseOk(NoneDoc), ParseOk(NoneDoc))
    /\ pc = "call_is_version_compatible"
    /\ config_version \in {StrValue(s) : s \in VersionStrings}
    /\ InitLocals

------------------------------------------------------------------------------
(* main                                                                    *)

\* choices=["json", "yaml"] of --config-type.
ConfigTypeChoices == {"json", "yaml"}

SuccessLine == "Configuration version is compatible."

\* parser.parse_args() rejects a --config-type outside the choices: argparse
\* prints its usage message and exits with status 2.
main_parse_args_error ==
    /\ pc = "parse_args"
    /\ args.config_type \notin ConfigTypeChoices
    /\ exit_status' = 2
    /\ pc' = "exited"
    /\ UNCHANGED <<args, file, config_data, config_version, exc, returned, log, stdout,
                   file_opened, file_read, ivc_calls>>

\* parser.parse_args() accepts the command line; -v sets the DEBUG level.
main_parse_args ==
    /\ pc = "parse_args"
    /\ args.config_type \in ConfigTypeChoices
    /\ log' = IF args.verbose
              THEN Append(log, LogRecord("debug", "Verbose logging enabled", ""))
              ELSE log
    /\ pc' = "load_config"
    /\ UNCHANGED <<args, file, config_data, config_version, exc, returned, stdout,
                   exit_status, file_opened, file_read, ivc_calls>>

\* config_data = load_config(args.config_file, args.config_type)
main_load_config ==
    /\ pc = "load_config"
    /\ LET r == load_config(file, args.config_type, args.verbose)
       IN  /\ log' = log \o r.log
           /\ file_opened' = r.opened
           /\ file_read' = r.read
           /\ config_data' = r.ret
           /\ exc' = r.exc
           /\ pc' = IF r.exc = NoExc THEN "get_version" ELSE "except"
    /\ UNCHANGED <<args, file, config_version, returned, stdout, exit_status, ivc_calls>>

\* config_version = config_data.get(args.version_key), then the
\* `if not config_version` test: error record naming the key and sys.exit(1).
main_get_version ==
    /\ pc = "get_version"
    /\ IF config_data.type # "dict"
       THEN /\ exc' = Exc("AttributeError", "get")
            /\ pc' = "except"
            /\ UNCHANGED <<config_version, log>>
       ELSE /\ config_version' = DictGet(config_data, args.version_key)
            /\ IF ~Truthy(config_version')
               THEN /\ log' = Append(log, LogRecord("error", "Version key not found",
                                                    args.version_key))
                    /\ exc' = Exc("SystemExit", "1")
                    /\ pc' = "except"
               ELSE /\ pc' = "is_version_compatible"
                    /\ UNCHANGED <<exc, log>>
    /\ UNCHANGED <<args, file, config_data, returned, stdout, exit_status, file_opened,
                   file_read, ivc_calls>>

\* is_version_compatible(config_version, args.app_version)
main_is_version_compatible ==
    /\ pc = "is_version_compatible"
    /\ LET r == is_version_compatible(config_version, args.app_version)
       IN  /\ log' = log \o r.log
           /\ returned' = r.returned
           /\ exc' = r.exc
           /\ pc' = IF r.exc = NoExc THEN "print" ELSE "except"
    /\ ivc_calls' = ivc_calls + 1
    /\ UNCHANGED <<args, file, config_data, config_version, stdout, exit_status,
                   file_opened, file_read>>

\* print("Configuration version is compatible."); main returns, status 0.
main_print ==
    /\ pc = "print"
    /\ stdout' = Append(stdout, SuccessLine)
    /\ exit_status' = 0
    /\ pc' = "exited"
    /\ UNCHANGED <<args, file, config_data, config_version, exc, returned, log,
                   file_opened, file_read, ivc_calls>>

\* MainExceptClause without the final `except Exception` clause.
MainExceptClauseNoCatchAll(cls) ==
    IF IsInstance(cls, "FileNotFoundError") THEN "FileNotFoundError"
    ELSE IF IsInstance(cls, "ValueError") THEN "ValueError"
    ELSE IF IsInstance(cls, "VersionIncompatibilityError") THEN "VersionIncompatibilityError"
    ELSE "none"

\* The except clause of main's try statement that handles an exception of
\* class cls: the first clause, in source order, that matches.
MainExceptClause(cls) ==
    IF IsInstance(cls, "FileNotFoundError") THEN "FileNotFoundError"
    ELSE IF IsInstance(cls, "ValueError") THEN "ValueError"
    ELSE IF IsInstance(cls, "VersionIncompatibilityError") THEN "VersionIncompatibilityError"
    ELSE IF IsInstance(cls, "Exception") THEN "Exception"
    ELSE "none"

\* Exit1 with the status of a successful run.
Exit0 ==
    /\ exit_status' = 0
    /\ pc' = "exited"
    /\ UNCHANGED <<args, file, config_data, config_version, exc, returned, stdout,
                   file_opened, file_read, ivc_calls>>

\* sys.exit(1)
Exit1 ==
    /\ exit_status' = 1
    /\ pc' = "exited"
    /\ UNCHANGED <<args, file, config_data, config_version, exc, returned, stdout,
                   file_opened, file_read, ivc_calls>>

except_FileNotFoundError ==
    /\ pc = "except"
    /\ MainExceptClause(exc.cls) = "FileNotFoundError"
    /\ UNCHANGED log
    /\ Exit1

except_ValueError ==
    /\ pc = "except"
    /\ MainExceptClause(exc.cls) = "ValueError"
    /\ UNCHANGED log
    /\ Exit1

except_VersionIncompatibilityError ==
    /\ pc = "except"
    /\ MainExceptClause(exc.cls) = "VersionIncompatibilityError"
    /\ UNCHANGED log
    /\ Exit1

except_Exception ==
    /\ pc = "except"
    /\ MainExceptClause(exc.cls) = "Exception"
    /\ log' = Append(log, LogRecord("error", "An unexpected error occurred", exc.reason))
    /\ Exit1

\* sys.exit(1) raises SystemExit, which no except clause of main matches: it
\* leaves main and the interpreter exits with its status.
uncaught_SystemExit ==
    /\ pc = "except"
    /\ MainExceptClause(exc.cls) = "none"
    /\ UNCHANGED log
    /\ Exit1

Next ==
    \/ main_parse_args_error
    \/ main_parse_args
    \/ main_load_config
    \/ main_get_version
    \/ main_is_version_compatible
    \/ main_print
    \/ except_FileNotFoundError
    \/ except_ValueError
    \/ except_VersionIncompatibilityError
    \/ except_Exception
    \/ uncaught_SystemExit

Spec == Init /\ [][Next]_vars

------------------------------------------------------------------------------
(* Direct calls of the two library functions                               *)

call_load_config ==
    /\ pc = "call_load_config"
    /\ LET r == load_config(file, args.config_type, args.verbose)
       IN  /\ log' = log \o r.log
           /\ file_opened' = r.opened
           /\ file_read' = r.read
           /\ config_data' = r.ret
           /\ exc' = r.exc
    /\ pc' = "returned"
    /\ UNCHANGED <<args, file, config_version, returned, stdout, exit_status, ivc_calls>>

NextLoad == call_load_config

SpecLoad == InitLoad /\ [][NextLoad]_vars

call_is_version_compatible ==
    /\ pc = "call_is_version_compatible"
    /\ LET r == is_version_compatible(config_version, args.app_version)
       IN  /\ log' = log \o r.log
           /\ returned' = r.returned
           /\ exc' = r.exc
    /\ ivc_calls' = ivc_calls + 1
    /\ pc' = "returned"
    /\ UNCHANGED <<args, file, config_data, config_version, stdout, exit_status,
                   file_opened, file_read>>

NextCheck == call_is_version_compatible

SpecCheck == InitCheck /\ [][NextCheck]_vars

------------------------------------------------------------------------------
(* Properties of is_version_compatible (specification SpecCheck)           *)

\* The text of a decimal integer: digits, or a minus sign and digits.
IntegerText(tok) ==
    \/ AllDigits(tok)
    \/ Len(tok) > 1 /\ tok[1] = "-" /\ AllDigits(Tail(tok))

\* Exactly three dot-separated integer components.
ThreeIntegers(s) ==
    /\ Len(Split(s, ".")) = 3
    /\ \A i \in 1..3 : IntegerText(Split(s, ".")[i])

\* Exactly three dot-separated non-negative integer components.
WellFormed(s) ==
    /\ Len(Split(s, ".")) = 3
    /\ \A i \in 1..3 : AllDigits(Split(s, ".")[i])

Component(s, i) == DigitsValue(Split(s, ".")[i])

\* (major, minor) of c is at most (major, minor) of a, lexicographically.
LexLeq(c, a) ==
    \/ Component(c, 1) < Component(a, 1)
    \/ Component(c, 1) = Component(a, 1) /\ Component(c, 2) <= Component(a, 2)

WithPatch(s, p) == Join(<<Split(s, ".")[1], Split(s, ".")[2], p>>, ".")

CheckDone == pc = "returned" /\ ivc_calls = 1

BothWellFormed == WellFormed(config_version.text) /\ WellFormed(args.app_version)

\* C1: for well-formed versions of non-negative integers the comparator
\* returns True exactly when (major, minor) of the configured version is
\* lexicographically at most (major, minor) of the application version, and
\* the outcome is the same whatever the two patch components are.
C1_CompatibleIffLexLeq ==
    (CheckDone /\ BothWellFormed) =>
        /\ returned <=> LexLeq(config_version.text, args.app_version)
        /\ \A p, q \in DigitTokens :
              is_version_compatible(StrValue(WithPatch(config_version.text, p)),
                                    WithPatch(args.app_version, q)).returned = returned

\* Equal major and minor, the configured patch above the application's.
C1_Witness ==
    /\ CheckDone /\ BothWellFormed /\ returned
    /\ Component(config_version.text, 1) = Component(args.app_version, 1)
    /\ Component(config_version.text, 2) = Component(args.app_version, 2)
    /\ Component(config_version.text, 3) > Component(args.app_version, 3)

\* C2: for well-formed versions the comparator raises
\* VersionIncompatibilityError tagged major mismatch exactly when
\* config.major > app.major, tagged minor mismatch exactly when the majors
\* are equal and config.minor > app.minor, and the error carries both
\* version strings unchanged.
C2_MismatchTags ==
    (CheckDone /\ BothWellFormed) =>
        LET c == config_version.text
            a == args.app_version
            incompatible == exc.cls = "VersionIncompatibilityError"
        IN  /\ (incompatible /\ exc.reason = "Major version mismatch")
                  <=> Component(c, 1) > Component(a, 1)
            /\ (incompatible /\ exc.reason = "Minor version mismatch")
                  <=> (Component(c, 1) = Component(a, 1)
                          /\ Component(c, 2) > Component(a, 2))
            /\ incompatible =>
                  /\ exc.reason \in {"Major version mismatch", "Minor version mismatch"}
                  /\ exc.config_version = c
                  /\ exc.app_version = a
                  /\ ~returned

\* A minor mismatch was raised: equal majors, the configured minor higher.
C2_Witness ==
    /\ CheckDone /\ BothWellFormed
    /\ exc.cls = "VersionIncompatibilityError"
    /\ exc.reason = "Minor version mismatch"
    /\ exc.config_version = config_version.text

\* C3: the comparator raises the invalid-format error (ValueError) whenever
\* either string is not exactly three dot-separated non-negative integers,
\* and then neither returns True nor raises VersionIncompatibilityError.
C3_MalformedAlwaysRejected ==
    (CheckDone /\ ~BothWellFormed) =>
        /\ exc.cls = "ValueError"
        /\ ~returned

------------------------------------------------------------------------------
(* Properties of whole runs (specification Spec)                           *)

Exited == pc = "exited"

\* The command line passed argparse.
ArgsAccepted == args.config_type \in {"json", "yaml"}

\* What the parser named by --config-type makes of the file.
Parsed == IF args.config_type = "json" THEN file.json ELSE file.yaml

LoadSucceeds == ArgsAccepted /\ file.state = "present" /\ Parsed.err = ""

KeyValue == Parsed.doc.items[args.version_key]

Falsy(v) ==
    \/ v.type = "NoneType"
    \/ v \in {StrValue(<<>>), [type |-> "int", text |-> <<"0">>],
              [type |-> "float", text |-> <<"0", ".", "0">>],
              [type |-> "bool", text |-> <<"F", "a", "l", "s", "e">>],
              [type |-> "list", text |-> <<"[", "]">>],
              [type |-> "dict", text |-> <<"{", "}">>]}

KeyMissing == LoadSucceeds /\ Parsed.doc.type = "dict" /\ (KeyValue = Absent \/ Falsy(KeyValue))

ExtractSucceeds == LoadSucceeds /\ Parsed.doc.type = "dict" /\ ~KeyMissing

CheckSucceeds ==
    /\ ExtractSucceeds
    /\ KeyValue.type = "str"
    /\ ThreeIntegers(KeyValue.text) /\ ThreeIntegers(args.app_version)
    /\ LexLeq(KeyValue.text, args.app_version)

ErrorRecords == {i \in 1..Len(log) : log[i].level \in {"error", "warning"}}

\* C4: the process exits with status 0 and prints the success line exactly
\* when load, extraction and check all succeeded; on every failure of the
\* load, the extraction or the check it exits with status 1, and the success
\* line is printed in no other run.
C4_ExitZeroIffAllSucceeded ==
    /\ Exited =>
          /\ (exit_status = 0 /\ stdout = <<SuccessLine>>) <=> CheckSucceeds
          /\ (ArgsAccepted /\ ~CheckSucceeds) => (exit_status = 1 /\ stdout = <<>>)
    /\ stdout # <<>> => (Exited /\ exit_status = 0)
    /\ ~Exited => exit_status = -1

\* A run that failed in the comparator.
C4_Witness ==
    /\ Exited /\ ExtractSucceeds /\ ~CheckSucceeds
    /\ exc.cls = "VersionIncompatibilityError"
    /\ exit_status = 1

\* C5: when the key is absent from the loaded mapping or holds a falsy
\* value, an error record naming the key is written, the comparator is never
\* called and the process exits with status 1; when the key holds a
\* non-falsy value no such record is written.
C5_MissingVersion ==
    /\ KeyMissing => ivc_calls = 0
    /\ (Exited /\ KeyMissing) =>
          /\ Len(log) > 0
          /\ log[Len(log)] = LogRecord("error", "Version key not found", args.version_key)
          /\ exit_status = 1
          /\ stdout = <<>>
    /\ ExtractSucceeds =>
          \A i \in 1..Len(log) : log[i].msg # "Version key not found"

\* The key is present and holds the empty string.
C5_Witness ==
    /\ Exited /\ KeyMissing /\ KeyValue = StrValue(<<>>)
    /\ exit_status = 1

\* C6: a non-falsy value of any type under the key is handed to the
\* comparator as its string form, so the run ends as the comparator ends
\* on that string: compatible, VersionIncompatibilityError or the
\* invalid-format error (ValueError), and nothing else.
C6_NonStringCoerced ==
    (Exited /\ ExtractSucceeds) =>
        LET r == is_version_compatible(StrValue(KeyValue.text), args.app_version)
        IN  /\ exc = r.exc
            /\ returned = r.returned
            /\ exc.cls \in {"None", "VersionIncompatibilityError", "ValueError"}

\* C8: on every failing run exactly one error or warning record is written.
C8_LoggedExactlyOnce ==
    (Exited /\ exit_status = 1) => Cardinality(ErrorRecords) = 1

\* C9: a failure that is none of the named kinds, in particular a parsed
\* document whose top level is no mapping, is caught by the last except
\* clause of main: an error record with its description is written, the
\* process exits with status 1 and nothing is printed; the only exception
\* that leaves main is the SystemExit of sys.exit.
NamedKinds ==
    {"FileNotFoundError", "JSONDecodeError", "YAMLError", "ValueError",
     "UnicodeDecodeError", "VersionIncompatibilityError", "SystemExit"}

C9_UnexpectedCaught ==
    /\ (Exited /\ exc # NoExc /\ exc.cls \notin NamedKinds) =>
          /\ Len(log) > 0
          /\ log[Len(log)] = LogRecord("error", "An unexpected error occurred", exc.reason)
          /\ exit_status = 1
          /\ stdout = <<>>
    /\ (Exited /\ LoadSucceeds /\ Parsed.doc.type # "dict") =>
          /\ exc.cls \notin NamedKinds
          /\ exc # NoExc
          /\ ivc_calls = 0

\* An empty YAML file: safe_load yields None.
C9_Witness ==
    /\ Exited /\ args.config_type = "yaml" /\ LoadSucceeds
    /\ Parsed.doc = NoneDoc
    /\ exc.cls = "AttributeError"
    /\ exit_status = 1

------------------------------------------------------------------------------
(* Properties of load_config (specification SpecLoad)                      *)

\* C7: load_config with a format tag other than "json" and "yaml" raises
\* ValueError whatever the state of the file, which is neither opened nor
\* read.
C7_UnsupportedFormat ==
    (pc = "returned" /\ args.config_type \notin {"json", "yaml"}) =>
        /\ exc.cls = "ValueError"
        /\ ~file_opened
        /\ ~file_read

====
